---- MODULE Spec2Model ----
(***************************************************************************)
(* A model of src/src/tools/hydrologic_analysis.py: the automated          *)
(* hydrologic workflow (DEM acquisition, core hydrology, pour-point        *)
(* identification, sub-catchment delineation) and its orchestrator.        *)
(*                                                                         *)
(* The libraries the module calls (seamless_3dep, rasterio, pysheds,       *)
(* geopandas) are collaborators: every call to one of them returns a value *)
(* drawn from a small set, or raises.  What the repository's own code does *)
(* with those values is modelled line by line.  networkx.DiGraph is        *)
(* modelled by its documented behaviour: a node list in insertion order    *)
(* and a set of directed edges.                                            *)
(*                                                                         *)
(* Representation: a path is the sequence of its components                *)
(* (Path(a) / b is a \o <<b>>), Python's None is the value None, a log     *)
(* line is [level, msg], the disk maps paths to file contents, and every call *)
(* to a collaborator or to a stage is appended to the trace `calls`.       *)
(***************************************************************************)
EXTENDS Integers, Sequences, FiniteSets, TLC

VARIABLES
    entry,            \* the function the caller invoked
    args,             \* its positional arguments
    pc,               \* position of the running function
    log,              \* the logger's records, in order
    disk,             \* the files of the project directory
    calls,            \* trace of collaborator and stage calls, in order
    outcome,          \* how the entry function ended
    input_dem_path,   \* run_full_workflow_os local
    hydrology_data,   \* run_full_workflow_os local
    pour_points,      \* run_full_workflow_os locals (pour_points_path, pour_point_coords)
    delin             \* locals of the running delineate_sub_catchments

vars == <<entry, args, pc, log, disk, calls, outcome, input_dem_path,
          hydrology_data, pour_points, delin>>

-----------------------------------------------------------------------------
(* Bounds of the model *)

MaxTiles == 2
MaxLines == 2
MaxPoints == 2
MaxShapes == 2

-----------------------------------------------------------------------------
(* Python values *)

None == <<"None">>

\* `not v` for a value that is a path or None
Falsy(v) == v = None \/ v = <<>>

\* `not v` for a list
EmptyList(v) == Len(v) = 0

Log(level, msg) == [level |-> level, msg |-> msg]

\* a recorded call: its arguments, whether it returned (ok) or raised, and
\* what it returned (<<>> when that is of no interest)
Call(fn, a, ok, ret) == [fn |-> fn, args |-> a, ok |-> ok, ret |-> ret]

Range(s) == {s[i] : i \in 1..Len(s)}

\* the calls to fn recorded in trace s, in order
RECURSIVE SelectCalls(_, _)
SelectCalls(s, fn) ==
    IF s = <<>> THEN <<>>
    ELSE IF Head(s).fn = fn THEN <<Head(s)>> \o SelectCalls(Tail(s), fn)
         ELSE SelectCalls(Tail(s), fn)

-----------------------------------------------------------------------------
(* Configuration *)

FILE_CONFIG ==
    [logs_dir            |-> "logs",
     log_file            |-> "hydrologic_analysis_os.log",
     input_dem_dir       |-> "input_dem",
     merged_dem          |-> "dem_merged.tif",
     pysheds_outputs_dir |-> "pysheds_outputs",
     flow_accumulation   |-> "flow_accumulation.tif",
     flow_direction      |-> "flow_direction_d8.tif",
     stream_network      |-> "stream_network.gpkg",
     pour_points         |-> "pour_points.gpkg",
     sub_catchments      |-> "sub_catchments.gpkg"]

DEFAULT_RESOLUTION == 10

-----------------------------------------------------------------------------
(* The file system *)

\* the disk maps the path of every file to its content
NoFiles == [p \in {} |-> <<>>]

Exists(d, path) == path \in DOMAIN d

ReadFile(d, path) == d[path]

WriteFile(d, path, content) ==
    [p \in DOMAIN d \cup {path} |-> IF p = path THEN content ELSE d[p]]

\* a vector file: its rows and its CRS
Vector(features, crs) == [features |-> features, crs |-> crs]

-----------------------------------------------------------------------------
(* Inputs *)

BBoxes == {<<-90, 30, -89, 31>>, <<-105, 39, -104, 40>>}

ProjectDirs == {<<"project">>}

Resolutions == {10, 30}

Drivers == {"GTiff", "VRT"}
CRSs == {"EPSG:4326", "EPSG:5070"}
DTypes == {"float32", "int16"}

\* the .meta of a downloaded tile
TileMeta(driver, crs, dtype, n) ==
    [driver |-> driver, dtype |-> dtype, nodata |-> -9999, width |-> 10,
     height |-> 10, count |-> 1, crs |-> crs, transform |-> <<"tile_transform", n>>]

\* a raster file: its metadata and the shape of the array written to it
Raster(meta, shape) == [meta |-> meta, shape |-> shape]

TileName(n) == CASE n = 1 -> "dem_tile_1.tif" [] n = 2 -> "dem_tile_2.tif"
                 [] n = 3 -> "dem_tile_3.tif" [] OTHER -> "dem_tile_n.tif"

\* what s3dep.get_dem may leave in data_dir: n tiles, each with its own metadata
TileLists(data_dir, drivers, crss, dtypes, maxTiles) ==
    UNION {
        { [i \in 1..n |-> [path |-> data_dir \o <<TileName(i)>>,
                           meta |-> TileMeta(m[i][1], m[i][2], m[i][3], i)]]
          : m \in [1..n -> drivers \X crss \X dtypes] }
        : n \in 0..maxTiles }

\* (mosaic.shape, out_trans) results of rasterio.merge.merge
Mosaics == { [shape |-> <<1, 10, 20>>, out_trans |-> <<"merged_transform", 0>>],
             [shape |-> <<1, 20, 10>>, out_trans |-> <<"merged_transform", 0>>],
             [shape |-> <<1, 20, 20>>, out_trans |-> <<"merged_transform", 1>>] }

\* where a collaborator of download_dem_for_aoi raises, if anywhere
DemFailures == {"none", "mkdir", "get_dem", "open", "merge", "write_open", "write_data"}

\* behaviours of the collaborators of download_dem_for_aoi
DemEnvs(data_dir, drivers, crss, dtypes, maxTiles, mosaics) ==
    [fail : DemFailures,
     tiles : TileLists(data_dir, drivers, crss, dtypes, maxTiles),
     open_fail_at : 1..maxTiles,
     mosaic : mosaics]

-----------------------------------------------------------------------------
(* Stage 1: download_dem_for_aoi *)

\* resolution: int = 10
Resolution(a) == IF Len(a) >= 3 THEN a[3] ELSE DEFAULT_RESOLUTION

\* what a function hands back: a returned value or a propagated exception,
\* with the log, the call trace and the disk as it leaves them
Returned(value, lg, cs, d) ==
    [raised |-> FALSE, value |-> value, log |-> lg, calls |-> cs, disk |-> d]

Raised(lg, cs, d) ==
    [raised |-> TRUE, value |-> None, log |-> lg, calls |-> cs, disk |-> d]

\* if len(tiff_files) > 1
NeedsMergeOnAnyTile(tiff_files) == Len(tiff_files) >= 1
NeedsMerge(tiff_files) == Len(tiff_files) > 1

\* merged_dem_path = data_dir / FILE_CONFIG["merged_dem"]
MergedDemPath(data_dir) == data_dir \o <<FILE_CONFIG.merged_dem>>

\* out_meta = src_files_to_mosaic[0].meta.copy(); out_meta.update({...})
OutMetaLastTile(src_files_to_mosaic, mosaic) ==
    [src_files_to_mosaic[Len(src_files_to_mosaic)].meta EXCEPT
        !.driver = "GTiff",
        !.height = mosaic.shape[2],
        !.width = mosaic.shape[3],
        !.transform = mosaic.out_trans]
OutMetaSwapped(src_files_to_mosaic, mosaic) ==
    [src_files_to_mosaic[1].meta EXCEPT
        !.driver = "GTiff",
        !.height = mosaic.shape[3],
        !.width = mosaic.shape[2],
        !.transform = mosaic.out_trans]
OutMeta(src_files_to_mosaic, mosaic) ==
    [src_files_to_mosaic[1].meta EXCEPT
        !.driver = "GTiff",
        !.height = mosaic.shape[2],
        !.width = mosaic.shape[3],
        !.transform = mosaic.out_trans]

\* except Exception as e: logger.error(...); return None
DemExceptReraise(lg, cs, d) == Raised(lg, cs, d)
DemExceptSilent(lg, cs, d) == Returned(None, lg, cs, d)
DemExcept(lg, cs, d) ==
    Returned(None, Append(lg, Log("error", "DEM download failed")), cs, d)

\* src_files_to_mosaic = [rasterio.open(f) for f in tiff_files]:
\* the calls made when the open of tile number k raises (k = 0: none does)
OpenCalls(tiff_files, k) ==
    [i \in 1..(IF k = 0 THEN Len(tiff_files) ELSE k) |->
        Call("rasterio.open", <<tiff_files[i].path, "r">>, i # k, <<>>)]

download_dem_for_aoi(a, env, d0) ==
    LET bbox == a[1]
        output_dir == a[2]
        resolution == Resolution(a)
        lg0 == <<Log("info", "Starting DEM download")>>
        data_dir == output_dir
        mkdir == Call("mkdir", <<data_dir>>, env.fail # "mkdir", <<>>)
        get_dem == Call("s3dep.get_dem", <<bbox, data_dir, resolution>>, env.fail # "get_dem",
                        IF env.fail = "get_dem" THEN <<>> ELSE env.tiles)
        cs1 == <<mkdir, get_dem>>
        tiff_files == env.tiles
        \* the tiles get_dem has left in data_dir
        d1 == [p \in DOMAIN d0 \cup {t.path : t \in Range(tiff_files)} |->
                 IF \E t \in Range(tiff_files) : t.path = p
                 THEN LET t == CHOOSE t \in Range(tiff_files) : t.path = p
                      IN  Raster(t.meta, <<t.meta.count, t.meta.height, t.meta.width>>)
                 ELSE d0[p]]
        lg1 == Append(lg0, Log("info", "Successfully downloaded DEM tile(s)"))
        merged_dem_path == MergedDemPath(data_dir)
        k == IF env.fail = "open" /\ env.open_fail_at <= Len(tiff_files)
             THEN env.open_fail_at ELSE 0
        cs2 == cs1 \o OpenCalls(tiff_files, k)
        src_files_to_mosaic == tiff_files
        merge == Call("rasterio.merge.merge",
                      [i \in 1..Len(src_files_to_mosaic) |-> src_files_to_mosaic[i].path],
                      env.fail # "merge", env.mosaic)
        cs3 == Append(cs2, merge)
        mosaic == env.mosaic
        out_meta == OutMeta(src_files_to_mosaic, mosaic)
        cs4 == Append(cs3, Call("rasterio.open", <<merged_dem_path, "w">>, env.fail # "write_open", <<>>))
        cs5 == Append(cs4, Call("dest.write", <<merged_dem_path>>, env.fail # "write_data", <<>>))
        \* the file exists once opened for writing; its array only once written
        d4 == WriteFile(d1, merged_dem_path, Raster(out_meta, <<>>))
        d5 == WriteFile(d1, merged_dem_path, Raster(out_meta, mosaic.shape))
        dem_path == tiff_files[1].path
    IN  IF env.fail = "mkdir" THEN Raised(lg0, <<mkdir>>, d0)
        ELSE IF env.fail = "get_dem" THEN DemExcept(lg0, cs1, d0)
        ELSE IF EmptyList(tiff_files) THEN DemExcept(lg0, cs1, d1)
        ELSE IF NeedsMerge(tiff_files) THEN
            IF k # 0 THEN DemExcept(lg1, cs2, d1)
            ELSE IF env.fail = "merge" THEN DemExcept(lg1, cs3, d1)
            ELSE IF env.fail = "write_open" THEN DemExcept(lg1, cs4, d1)
            ELSE IF env.fail = "write_data" THEN DemExcept(lg1, cs5, d4)
            ELSE Returned(merged_dem_path,
                          Append(lg1, Log("info", "Merged DEM tiles")), cs5, d5)
        ELSE Returned(dem_path, Append(lg1, Log("info", "DEM available")), cs1, d1)

-----------------------------------------------------------------------------
(* Stage 2 & 3: perform_core_hydrology *)

StreamNetworkPath(project_dir) ==
    project_dir \o <<FILE_CONFIG.pysheds_outputs_dir, FILE_CONFIG.stream_network>>

OutputDir(project_dir) == project_dir \o <<FILE_CONFIG.pysheds_outputs_dir>>

\* where a collaborator of perform_core_hydrology raises, if anywhere
HydroFailures ==
    {"none", "open_dem", "read_raster", "fill_depressions", "resolve_flats", "flowdir",
     "accumulation", "extract_river_network", "mkdir", "write_acc", "write_fdir",
     "from_features", "write_streams"}

\* the progress lines of perform_core_hydrology, each logged before its step
StepLines ==
    <<Log("info", "Step 1: Filling sinks"),
      Log("info", "Step 2: Resolving flats"),
      Log("info", "Step 3: Calculating D8 flow direction"),
      Log("info", "Step 4: Calculating flow accumulation"),
      Log("info", "Step 5: Extracting stream network")>>

\* grid.extract_river_network(fdir, acc > stream_threshold): no cell is in the
\* mask when the threshold is not below the largest accumulation
ExtractRiverNetwork(acc, stream_threshold, network) ==
    [features |-> IF acc.max > stream_threshold THEN network ELSE <<>>]

\* if streams["features"]
HasStreamsAlways(streams) == TRUE
HasStreamsNever(streams) == FALSE
HasStreams(streams) == ~EmptyList(streams.features)

\* with rasterio.open(dem_path) as src: dem_crs = src.crs
DemCrsGeographic(d, dem_path) == "EPSG:4326"
DemCrs(d, dem_path) == ReadFile(d, dem_path).meta.crs

\* env: [fail, acc (the accumulation raster), network (the reaches pysheds finds)]
perform_core_hydrology(dem_path, project_dir, stream_threshold, env, d0) ==
    LET lg0 == <<Log("info", "Starting core hydrologic analysis")>>
        \* rasterio.open raises on a path that is no raster file
        opens == Exists(d0, dem_path) /\ env.fail # "open_dem"
        open == Call("rasterio.open", <<dem_path, "r">>, opens, <<>>)
        dem_crs == DemCrs(d0, dem_path)
        grid == [raster |-> dem_path]
        steps(k) == lg0 \o SubSeq(StepLines, 1, k)
        accumulation == Call("grid.accumulation", <<dem_path>>, env.fail # "accumulation", <<>>)
        fdir == [of |-> dem_path]
        acc == env.acc
        streams == ExtractRiverNetwork(acc, stream_threshold, env.network)
        extract == Call("grid.extract_river_network", <<acc, stream_threshold>>, TRUE, streams)
        extract_raises ==
            Call("grid.extract_river_network", <<acc, stream_threshold>>, FALSE, <<>>)
        pysheds == <<accumulation, extract>>
        lg1 == steps(5)
        output_dir == OutputDir(project_dir)
        mkdir == Call("mkdir", <<output_dir>>, env.fail # "mkdir", <<>>)
        acc_path == output_dir \o <<FILE_CONFIG.flow_accumulation>>
        fdir_path == output_dir \o <<FILE_CONFIG.flow_direction>>
        w_acc == Call("grid.to_raster", <<acc_path>>, env.fail # "write_acc", <<>>)
        w_fdir == Call("grid.to_raster", <<fdir_path>>, env.fail # "write_fdir", <<>>)
        d1 == WriteFile(d0, acc_path, [raster |-> acc])
        d2 == WriteFile(d1, fdir_path, [raster |-> fdir])
        path == output_dir \o <<FILE_CONFIG.stream_network>>
        to_file == Call("to_file", <<path>>, env.fail # "write_streams", <<>>)
        d3 == WriteFile(d2, path, Vector(streams.features, dem_crs))
        data(stream_network_path) ==
            [set |-> TRUE, grid |-> grid, fdir |-> fdir, acc |-> acc,
             stream_network_path |-> stream_network_path, crs |-> dem_crs]
        done == Log("info", "Core hydrology complete")
    IN  IF ~opens THEN Raised(lg0, <<open>>, d0)
        ELSE IF env.fail = "read_raster" THEN Raised(lg0, <<open>>, d0)
        ELSE IF env.fail = "fill_depressions" THEN Raised(steps(1), <<open>>, d0)
        ELSE IF env.fail = "resolve_flats" THEN Raised(steps(2), <<open>>, d0)
        ELSE IF env.fail = "flowdir" THEN Raised(steps(3), <<open>>, d0)
        ELSE IF env.fail = "accumulation" THEN Raised(steps(4), <<open, accumulation>>, d0)
        ELSE IF env.fail = "extract_river_network"
        THEN Raised(lg1, <<open, accumulation, extract_raises>>, d0)
        ELSE IF env.fail = "mkdir" THEN Raised(lg1, <<open>> \o pysheds \o <<mkdir>>, d0)
        ELSE IF env.fail = "write_acc"
        THEN Raised(lg1, <<open>> \o pysheds \o <<mkdir, w_acc>>, d0)
        ELSE IF env.fail = "write_fdir"
        THEN Raised(lg1, <<open>> \o pysheds \o <<mkdir, w_acc, w_fdir>>, d1)
        ELSE IF HasStreams(streams) THEN
            IF env.fail = "from_features"
            THEN Raised(lg1, <<open>> \o pysheds \o <<mkdir, w_acc, w_fdir>>, d2)
            ELSE IF env.fail = "write_streams"
            THEN Raised(lg1, <<open>> \o pysheds \o <<mkdir, w_acc, w_fdir, to_file>>, d2)
            ELSE Returned(data(path), Append(lg1, done),
                          <<open>> \o pysheds \o <<mkdir, w_acc, w_fdir, to_file>>, d3)
        ELSE Returned(data(None),
                      lg1 \o <<Log("warning", "No streams were extracted"), done>>,
                      <<open>> \o pysheds \o <<mkdir, w_acc, w_fdir>>, d2)

-----------------------------------------------------------------------------
(* Stage 4: find_pour_points_with_networkx *)

\* vertex coordinates of stream polylines
Coords == {<<100, 200>>, <<100, 150>>, <<50, 250>>, <<150, 250>>}

\* numbers of vertices of a polyline
LineLengths == {2, 3}

\* a LineString: its coords, in stored order
Polylines == UNION {[1..n -> Coords] : n \in LineLengths}

\* the rows of a stream network file: up to maxLines LineStrings
Networks(maxLines) == UNION {[1..n -> Polylines] : n \in 0..maxLines}

\* nx.DiGraph(): nodes in insertion order, edges a set of (u, v)
EmptyDiGraph == [nodes |-> <<>>, edges |-> {}]

AddNode(nodes, n) == IF n \in Range(nodes) THEN nodes ELSE Append(nodes, n)

\* G.add_edge(u, v)
add_edge_reversed(G, u, v) ==
    [nodes |-> AddNode(AddNode(G.nodes, u), v), edges |-> G.edges \cup {<<v, u>>}]
add_edge(G, u, v) ==
    [nodes |-> AddNode(AddNode(G.nodes, u), v), edges |-> G.edges \cup {<<u, v>>}]

\* G.in_degree(node)
in_degree(G, node) == Cardinality({e \in G.edges : e[2] = node})

\* for i in range(len(line.coords) - 1): G.add_edge(line.coords[i], line.coords[i + 1])
RECURSIVE AddLine(_, _, _)
AddLine(G, line, i) ==
    IF i > Len(line) - 1 THEN G
    ELSE AddLine(add_edge(G, line[i], line[i + 1]), line, i + 1)

\* for _, row in streams_gdf.iterrows(): ...
RECURSIVE BuildGraph(_, _)
BuildGraph(G, rows) ==
    IF rows = <<>> THEN G
    ELSE BuildGraph(AddLine(G, Head(rows), 1), Tail(rows))

\* if G.in_degree(node) >= 2
IsJunctionAboveTwo(G, node) == in_degree(G, node) > 2
IsJunction(G, node) == in_degree(G, node) >= 2

\* elif G.in_degree(node) == 0
IsTerminus(G, node) == in_degree(G, node) = 0

\* junction_nodes, termini_nodes = [], []; for node in G.nodes(): ...
RECURSIVE Classify(_, _, _)
Classify(G, nodes, found) ==
    IF nodes = <<>> THEN found
    ELSE LET node == Head(nodes)
         IN  Classify(G, Tail(nodes),
                 IF IsJunction(G, node)
                 THEN [found EXCEPT !.junction_nodes = Append(@, node)]
                 ELSE IF IsTerminus(G, node)
                 THEN [found EXCEPT !.termini_nodes = Append(@, node)]
                 ELSE found)

\* points_data: the junctions, then the termini
PointsDataTerminiFirst(junction_nodes, termini_nodes) ==
    [i \in 1..Len(termini_nodes) |->
        [geometry |-> termini_nodes[i], point_type |-> "TERMINUS"]]
    \o [i \in 1..Len(junction_nodes) |->
        [geometry |-> junction_nodes[i], point_type |-> "JUNCTION"]]
PointsData(junction_nodes, termini_nodes) ==
    [i \in 1..Len(junction_nodes) |->
        [geometry |-> junction_nodes[i], point_type |-> "JUNCTION"]]
    \o [i \in 1..Len(termini_nodes) |->
        [geometry |-> termini_nodes[i], point_type |-> "TERMINUS"]]

PourPointsPath(project_dir) ==
    project_dir \o <<FILE_CONFIG.pysheds_outputs_dir, FILE_CONFIG.pour_points>>

\* where a collaborator of find_pour_points_with_networkx raises, if anywhere
TopoFailures == {"none", "read_file", "to_file"}

find_pour_points_with_networkx(stream_network_path, project_dir, crs, fail, d0) ==
    LET lg0 == <<Log("info", "Identifying all pour points")>>
        read == Call("gpd.read_file", <<stream_network_path>>, fail # "read_file", <<>>)
        streams_gdf == ReadFile(d0, stream_network_path)
        output_path == PourPointsPath(project_dir)
        G == BuildGraph(EmptyDiGraph, streams_gdf.features)
        \* the graph as it stands when the loop over the rows has ended
        built == Call("nx.DiGraph", <<>>, TRUE, G)
        lg1 == Append(Append(lg0, Log("debug", "Reading stream features and building a complete graph")),
                      [level |-> "info", msg |-> "Graph built",
                       number_of_nodes |-> Len(G.nodes),
                       number_of_edges |-> Cardinality(G.edges)])
        found == Classify(G, G.nodes, [junction_nodes |-> <<>>, termini_nodes |-> <<>>])
        junction_nodes == found.junction_nodes
        termini_nodes == found.termini_nodes
        lg2 == Append(lg1, Log("info", "Found junctions and termini"))
        points_data == PointsData(junction_nodes, termini_nodes)
        to_file == Call("to_file", <<output_path>>, fail # "to_file", <<>>)
        x_coords == [i \in 1..Len(points_data) |-> points_data[i].geometry[1]]
        y_coords == [i \in 1..Len(points_data) |-> points_data[i].geometry[2]]
    IN  IF Falsy(stream_network_path)
        THEN Returned(<<None, <<>>>>,
                      <<Log("warning", "No stream network available")>>, <<>>, d0)
        ELSE IF fail = "read_file" THEN Raised(lg0, <<read>>, d0)
        ELSE IF EmptyList(points_data)
        THEN Returned(<<None, <<>>>>,
                      Append(lg2, Log("warning", "No pour points were identified")),
                      <<read, built>>, d0)
        ELSE IF fail = "to_file" THEN Raised(lg2, <<read, built, to_file>>, d0)
        ELSE Returned(<<output_path, <<x_coords, y_coords>>>>,
                      Append(lg2, Log("info", "Pour points feature class created")),
                      <<read, built, to_file>>,
                      WriteFile(d0, output_path, Vector(points_data, crs)))

-----------------------------------------------------------------------------
(* Callers: a function of the module is called directly, as the tests do, or
   through run_full_workflow_os *)

NoHydrologyData == [set |-> FALSE]
NoPourPoints == <<None, <<>>>>
NoDelin == [active |-> FALSE]

Pending == [kind |-> "pending", value |-> None]

Idle(e, a, d) ==
    /\ entry = e
    /\ args = a
    /\ pc = "call"
    /\ log = <<>>
    /\ disk = d
    /\ calls = <<>>
    /\ outcome = Pending
    /\ input_dem_path = None
    /\ hydrology_data = NoHydrologyData
    /\ pour_points = NoPourPoints
    /\ delin = NoDelin

\* the entry function ends with result r
Finish(r) ==
    /\ pc' = "returned"
    /\ log' = log \o r.log
    /\ calls' = calls \o r.calls
    /\ disk' = r.disk
    /\ outcome' = [kind |-> IF r.raised THEN "raise" ELSE "return", value |-> r.value]

-----------------------------------------------------------------------------
(* download_dem_for_aoi called directly *)

DemArgs ==
    { <<b, p \o <<FILE_CONFIG.input_dem_dir>>>> : b \in BBoxes, p \in ProjectDirs }
    \cup { <<b, p \o <<FILE_CONFIG.input_dem_dir>>, r>> :
           b \in BBoxes, p \in ProjectDirs, r \in Resolutions }

InitDem == \E a \in DemArgs : Idle("download_dem_for_aoi", a, NoFiles)

CallDownloadDem ==
    /\ entry = "download_dem_for_aoi"
    /\ pc = "call"
    /\ \E env \in DemEnvs(args[2], Drivers, CRSs, DTypes, MaxTiles, Mosaics) :
          Finish(download_dem_for_aoi(args, env, disk))
    /\ UNCHANGED <<entry, args, input_dem_path, hydrology_data, pour_points, delin>>

NextDem == CallDownloadDem

SpecDem == InitDem /\ [][NextDem]_vars

-----------------------------------------------------------------------------
(* Stage 5: delineate_sub_catchments, one action per step of its loop *)

WORKFLOW == "run_full_workflow_os"
DELINEATE == "delineate_sub_catchments"

\* list(zip(x, y))
Zip(x, y) ==
    [i \in 1..(IF Len(x) <= Len(y) THEN Len(x) ELSE Len(y)) |-> <<x[i], y[i]>>]

\* results of grid.snap_to_mask(acc > 0, points): every point stays where it
\* is (it is on a channel cell) or moves to the nearest channel cell
Snaps == {"on_channel", "to_outlet"}
SnapToMask(snap, points) ==
    [i \in 1..Len(points) |-> IF snap = "on_channel" THEN points[i] ELSE <<100, 150>>]

\* (geom, value) pairs grid.polygonize yields for a uint8 catchment raster
Shapes == {<<"polygon_a", 1>>, <<"polygon_b", 1>>, <<"background", 0>>}
ShapeLists(maxShapes) == UNION {[1..n -> Shapes] : n \in 0..maxShapes}

\* shapely.geometry.shape(geom)
shape(geom) == [polygon |-> geom]

\* if value == 1
IsCatchment(value) == value = 1

\* for geom, value in shapes: if value == 1: polygons_for_this_point.append(shape(geom))
RECURSIVE PolygonsForThisPoint(_)
PolygonsForThisPoint(shapes) ==
    IF shapes = <<>> THEN <<>>
    ELSE IF IsCatchment(Head(shapes)[2])
         THEN <<shape(Head(shapes)[1])>> \o PolygonsForThisPoint(Tail(shapes))
         ELSE PolygonsForThisPoint(Tail(shapes))

\* all_catchments_shapes.extend(polygons_for_this_point)
ExtendUnique(all_catchments_shapes, polygons_for_this_point) ==
    IF Range(polygons_for_this_point) \subseteq Range(all_catchments_shapes)
    THEN all_catchments_shapes
    ELSE all_catchments_shapes \o polygons_for_this_point
Extend(all_catchments_shapes, polygons_for_this_point) ==
    all_catchments_shapes \o polygons_for_this_point

\* if not all_catchments_shapes
NothingDelineatedNever(all_catchments_shapes) == FALSE
NothingDelineated(all_catchments_shapes) == EmptyList(all_catchments_shapes)

SubCatchmentsPath(project_dir) ==
    project_dir \o <<FILE_CONFIG.pysheds_outputs_dir, FILE_CONFIG.sub_catchments>>

\* (hydrology_data, pour_point_coords, project_dir, crs) of the running call
DelinArgs ==
    IF entry = DELINEATE THEN args
    ELSE <<hydrology_data, pour_points[2], args[2], hydrology_data.crs>>

\* except Exception as e (line 298): where control goes when a stage raises
\* inside the try block of run_full_workflow_os
OnExceptionUncaught == "finally"
OnException == "except"

\* an exception is propagating
InFlight == [kind |-> "raising", value |-> None]

\* delineate_sub_catchments ends: it hands back to its caller
DelinExit(raised, value) ==
    /\ delin' = NoDelin
    /\ IF entry = DELINEATE
       THEN /\ pc' = "returned"
            /\ outcome' = [kind |-> IF raised THEN "raise" ELSE "return", value |-> value]
       ELSE /\ pc' = IF raised THEN OnException ELSE "finally"
            /\ outcome' = IF raised THEN InFlight ELSE outcome

Enter(stage) == Call("enter", <<stage>>, TRUE, <<>>)
Exit(stage, ok, ret) == Call("exit", <<stage>>, ok, ret)
\* the call of a stage that is given the crs of its output layer
EnterWithCrs(stage, crs) == Call("enter", <<stage>>, TRUE, crs)

\* lines 218-231: snap the pour points, start the loop
DelineateBegin ==
    /\ \/ entry = DELINEATE /\ pc = "call"
       \/ entry = WORKFLOW /\ pc = "delineation"
    /\ IF Len(DelinArgs[2]) # 2
       THEN \* x, y = pour_point_coords raises ValueError
            /\ log' = Append(log, Log("info", "Starting sub-catchment delineation"))
            /\ calls' = calls \o <<EnterWithCrs(DELINEATE, DelinArgs[4]), Exit(DELINEATE, FALSE, None)>>
            /\ DelinExit(TRUE, None)
       ELSE
       LET x == DelinArgs[2][1]
           y == DelinArgs[2][2]
           pour_points_array == Zip(x, y)
       IN  \E snap \in Snaps, ok \in BOOLEAN :
            /\ calls' = calls \o <<EnterWithCrs(DELINEATE, DelinArgs[4]),
                                   Call("grid.snap_to_mask", pour_points_array, ok, <<>>)>>
                              \o (IF ok THEN <<>> ELSE <<Exit(DELINEATE, FALSE, None)>>)
            /\ IF ok
               THEN /\ log' = log \o
                          <<Log("info", "Starting sub-catchment delineation"),
                            [level |-> "info",
                             msg |-> "Delineating catchments for initial pour points",
                             number |-> Len(SnapToMask(snap, pour_points_array))]>>
                    /\ delin' = [active |-> TRUE,
                                 snapped_pour_points |-> SnapToMask(snap, pour_points_array),
                                 i |-> 0,
                                 all_catchments_shapes |-> <<>>,
                                 successfully_delineated_count |-> 0]
                    /\ pc' = "delin_loop"
                    /\ outcome' = outcome
               ELSE /\ log' = Append(log, Log("info", "Starting sub-catchment delineation"))
                    /\ DelinExit(TRUE, None)
    /\ UNCHANGED <<entry, args, disk, input_dem_path, hydrology_data, pour_points>>

\* lines 233-251: one iteration of the loop over the snapped pour points
DelineatePoint(shapeLists) ==
    /\ pc = "delin_loop"
    /\ delin.i < Len(delin.snapped_pour_points)
    /\ LET i == delin.i
           pt == delin.snapped_pour_points[i + 1]
       IN  \/ \E shapes \in shapeLists :
                LET polygons_for_this_point == PolygonsForThisPoint(shapes)
                IN  /\ calls' = Append(calls, Call("grid.catchment", pt, TRUE, shapes))
                    /\ IF ~EmptyList(polygons_for_this_point)
                       THEN /\ delin' = [delin EXCEPT
                                   !.i = i + 1,
                                   !.all_catchments_shapes =
                                       Extend(@, polygons_for_this_point),
                                   !.successfully_delineated_count = @ + 1]
                            /\ log' = log
                       ELSE /\ delin' = [delin EXCEPT !.i = i + 1]
                            /\ log' = Append(log,
                                   [level |-> "warning",
                                    msg |-> "No valid catchment polygon found for pour point",
                                    number |-> i + 1, at |-> pt])
                    /\ UNCHANGED <<pc, outcome>>
           \/ /\ calls' = calls \o <<Call("grid.catchment", pt, FALSE, <<>>),
                                     Exit(DELINEATE, FALSE, None)>>
              /\ log' = log
              /\ DelinExit(TRUE, None)
    /\ UNCHANGED <<entry, args, disk, input_dem_path, hydrology_data, pour_points>>

\* lines 253-266: after the loop
DelineateEnd ==
    /\ pc = "delin_loop"
    /\ delin.i = Len(delin.snapped_pour_points)
    /\ LET summary == Log("info", "Successfully delineated catchments")
           output_path == SubCatchmentsPath(DelinArgs[3])
           crs == DelinArgs[4]
       IN  IF NothingDelineated(delin.all_catchments_shapes)
           THEN /\ log' = log \o <<summary,
                                   Log("warning", "No sub-catchments could be delineated and saved")>>
                /\ calls' = Append(calls, Exit(DELINEATE, TRUE, None))
                /\ disk' = disk
                /\ DelinExit(FALSE, None)
           ELSE \/ /\ log' = log \o <<summary,
                                      Log("info", "Sub-catchment delineation complete")>>
                   /\ calls' = calls \o <<Call("to_file", <<output_path>>, TRUE, <<>>),
                                          Exit(DELINEATE, TRUE, output_path)>>
                   /\ disk' = WriteFile(disk, output_path,
                                        Vector(delin.all_catchments_shapes, crs))
                   /\ DelinExit(FALSE, output_path)
                \/ /\ log' = Append(log, summary)
                   /\ calls' = calls \o <<Call("to_file", <<output_path>>, FALSE, <<>>),
                                          Exit(DELINEATE, FALSE, None)>>
                   /\ disk' = disk
                   /\ DelinExit(TRUE, None)
    /\ UNCHANGED <<entry, args, input_dem_path, hydrology_data, pour_points>>

-----------------------------------------------------------------------------
(* delineate_sub_catchments called directly *)

\* the pour points of a call: n points, as the pair (x list, y list)
PourPointCoords(n) ==
    <<[i \in 1..n |-> 100 + 10 * i], [i \in 1..n |-> 200 - 10 * i]>>

DelinHydrologyData ==
    [set |-> TRUE, grid |-> [raster |-> <<"project", "input_dem", "dem_tile_1.tif">>],
     fdir |-> [of |-> <<"project", "input_dem", "dem_tile_1.tif">>], acc |-> [max |-> 9000],
     stream_network_path |-> StreamNetworkPath(<<"project">>), crs |-> "EPSG:5070"]

InitDelin ==
    \E n \in 1..MaxPoints, p \in ProjectDirs :
        Idle(DELINEATE, <<DelinHydrologyData, PourPointCoords(n), p, "EPSG:5070">>, NoFiles)

DelineatePointDirect == entry = DELINEATE /\ DelineatePoint(ShapeLists(MaxShapes))

NextDelin ==
    \/ DelineateBegin
    \/ DelineatePointDirect
    \/ DelineateEnd

SpecDelin == InitDelin /\ [][NextDelin]_vars

-----------------------------------------------------------------------------
(* run_full_workflow_os *)

DOWNLOAD == "download_dem_for_aoi"
HYDROLOGY == "perform_core_hydrology"
TOPOLOGY == "find_pour_points_with_networkx"

Thresholds == {1000, 5000}

\* (bbox, project_dir, dem_resolution, stream_threshold)
WorkflowArgs == {<<b, p, 10, t>> : b \in BBoxes, p \in ProjectDirs, t \in Thresholds}

\* what the collaborators do during a whole run
WorkflowDemEnvs(data_dir) ==
    DemEnvs(data_dir, {"GTiff"}, CRSs, {"float32"}, MaxTiles,
            {[shape |-> <<1, 10, 20>>, out_trans |-> <<"merged_transform", 0>>]})

\* stream networks pysheds may extract: none, one reach, a confluence that
\* continues downstream, and a closed loop
WorkflowNetworks ==
    { <<>>,
      << <<<<50, 250>>, <<100, 200>>>> >>,
      << <<<<50, 250>>, <<100, 200>>, <<100, 150>>>>, <<<<150, 250>>, <<100, 200>>>> >>,
      << <<<<50, 250>>, <<100, 200>>, <<50, 250>>>> >> }

WorkflowHydroEnvs ==
    [fail : HydroFailures, acc : {[max |-> 3000]}, network : WorkflowNetworks]

WorkflowShapeLists ==
    { <<>>,
      << <<"background", 0>> >>,
      << <<"polygon_a", 1>> >>,
      << <<"background", 0>>, <<"polygon_a", 1>>, <<"polygon_b", 1>> >> }

InitWorkflow == \E a \in WorkflowArgs : Idle(WORKFLOW, a, NoFiles)

\* a stage called from the try block ends with result r: the trace of the call
StageTrace(stage, r) ==
    <<Enter(stage)>> \o r.calls
    \o <<Exit(stage, ~r.raised, IF stage = HYDROLOGY THEN <<>> ELSE r.value)>>

\* if not input_dem_path
AcquisitionFailedNever(path) == FALSE
AcquisitionFailed(path) == Falsy(path)

\* if pour_points_path
ShouldDelineateAlways(pour_points_path) == TRUE
ShouldDelineate(pour_points_path) == ~Falsy(pour_points_path)

\* lines 280-284
WorkflowAcquire ==
    /\ entry = WORKFLOW
    /\ pc = "call"
    /\ LET dem_output_dir == args[2] \o <<FILE_CONFIG.input_dem_dir>>
       IN  \E env \in WorkflowDemEnvs(dem_output_dir) :
            LET r == download_dem_for_aoi(<<args[1], dem_output_dir, args[3]>>, env, disk)
            IN  /\ calls' = calls \o StageTrace(DOWNLOAD, r)
                /\ disk' = r.disk
                /\ IF r.raised
                   THEN /\ log' = log \o r.log
                        /\ pc' = OnException
                        /\ outcome' = InFlight
                        /\ input_dem_path' = input_dem_path
                   ELSE /\ input_dem_path' = r.value
                        /\ outcome' = outcome
                        /\ IF AcquisitionFailed(r.value)
                           THEN /\ log' = log \o r.log
                                       \o <<Log("info", "Workflow halted due to DEM acquisition failure")>>
                                /\ pc' = "finally"
                           ELSE /\ log' = log \o r.log
                                /\ pc' = "hydrology"
    /\ UNCHANGED <<entry, args, hydrology_data, pour_points, delin>>

\* lines 286-291: the statement after the hydrology call is the topology call
AfterHydrologyUnlessEmpty(data) ==
    IF data.stream_network_path = None THEN "finally" ELSE "topology"
AfterHydrology(data) == "topology"

\* line 286
WorkflowHydrology ==
    /\ entry = WORKFLOW
    /\ pc = "hydrology"
    /\ \E env \in WorkflowHydroEnvs :
        LET r == perform_core_hydrology(input_dem_path, args[2], args[4], env, disk)
        IN  /\ calls' = calls \o StageTrace(HYDROLOGY, r)
            /\ disk' = r.disk
            /\ log' = log \o r.log
            /\ IF r.raised
               THEN /\ pc' = OnException
                    /\ outcome' = InFlight
                    /\ hydrology_data' = hydrology_data
               ELSE /\ pc' = AfterHydrology(r.value)
                    /\ outcome' = outcome
                    /\ hydrology_data' = r.value
    /\ UNCHANGED <<entry, args, input_dem_path, pour_points, delin>>

\* lines 288-296, up to the call of delineate_sub_catchments
WorkflowTopology ==
    /\ entry = WORKFLOW
    /\ pc = "topology"
    /\ LET dem_crs == hydrology_data.crs
       IN  \E fail \in TopoFailures :
            LET r == find_pour_points_with_networkx(
                         hydrology_data.stream_network_path, args[2], dem_crs, fail, disk)
            IN  /\ calls' = calls \o <<EnterWithCrs(TOPOLOGY, dem_crs)>>
                                  \o Tail(StageTrace(TOPOLOGY, r))
                /\ disk' = r.disk
                /\ IF r.raised
                   THEN /\ log' = log \o r.log
                        /\ pc' = OnException
                        /\ outcome' = InFlight
                        /\ pour_points' = pour_points
                   ELSE /\ pour_points' = r.value
                        /\ outcome' = outcome
                        /\ IF ShouldDelineate(r.value[1])
                           THEN /\ log' = log \o r.log
                                /\ pc' = "delineation"
                           ELSE /\ log' = log \o r.log
                                       \o <<Log("warning", "No pour points found, skipping sub-catchment delineation")>>
                                /\ pc' = "finally"
    /\ UNCHANGED <<entry, args, input_dem_path, hydrology_data, delin>>

DelineatePointWorkflow == entry = WORKFLOW /\ DelineatePoint(WorkflowShapeLists)

\* lines 298-299
WorkflowExcept ==
    /\ entry = WORKFLOW
    /\ pc = "except"
    /\ log' = Append(log, Log("error", "An unexpected Python error occurred"))
    /\ outcome' = Pending
    /\ pc' = "finally"
    /\ UNCHANGED <<entry, args, disk, calls, input_dem_path, hydrology_data, pour_points, delin>>

\* lines 300-301, then the function returns None or lets the exception go
WorkflowFinally ==
    /\ entry = WORKFLOW
    /\ pc = "finally"
    /\ log' = Append(log, Log("info", "Open-source hydrologic analysis workflow has finished"))
    /\ outcome' = IF outcome.kind = "raising"
                  THEN [kind |-> "raise", value |-> None]
                  ELSE [kind |-> "return", value |-> None]
    /\ pc' = "returned"
    /\ UNCHANGED <<entry, args, disk, calls, input_dem_path, hydrology_data, pour_points, delin>>

Init == InitWorkflow

Next ==
    \/ WorkflowAcquire
    \/ WorkflowHydrology
    \/ WorkflowTopology
    \/ DelineateBegin
    \/ DelineatePointWorkflow
    \/ DelineateEnd
    \/ WorkflowExcept
    \/ WorkflowFinally

Spec == Init /\ [][Next]_vars

-----------------------------------------------------------------------------
(* Properties of run_full_workflow_os *)

GetDemCalls == SelectCalls(calls, "s3dep.get_dem")

Entered(stage) ==
    \E i \in 1..Len(calls) : calls[i].fn = "enter" /\ calls[i].args = <<stage>>

\* the returns (ok) and raises (~ok) of a stage, in order
StageExits(stage) == SelectSeq(calls, LAMBDA c : c.fn = "exit" /\ c.args = <<stage>>)

Logged(level, msg) == \E i \in 1..Len(log) : log[i].level = level /\ log[i].msg = msg

FinalMessage == Log("info", "Open-source hydrologic analysis workflow has finished")

ReturnedNormally == pc = "returned" /\ outcome = [kind |-> "return", value |-> None]

\* download_dem_for_aoi has returned None to the orchestrator
AcquisitionReturnedNone ==
    /\ StageExits(DOWNLOAD) # <<>>
    /\ StageExits(DOWNLOAD)[1].ok
    /\ StageExits(DOWNLOAD)[1].ret = None

\* C1: once download_dem_for_aoi has returned None, the orchestrator has logged
\* the halt, is finishing or has returned, and has invoked none of
\* perform_core_hydrology, find_pour_points_with_networkx and
\* delineate_sub_catchments; and perform_core_hydrology is invoked only after
\* the acquisition returned the path of a raster.
C1_HaltOnAcquisitionFailure ==
    entry = WORKFLOW =>
        /\ AcquisitionReturnedNone =>
              /\ ~Entered(HYDROLOGY) /\ ~Entered(TOPOLOGY) /\ ~Entered(DELINEATE)
              /\ Logged("info", "Workflow halted due to DEM acquisition failure")
              /\ pc \in {"finally", "returned"}
              /\ pc = "returned" => ReturnedNormally
        /\ Entered(HYDROLOGY) =>
              /\ StageExits(DOWNLOAD) # <<>>
              /\ StageExits(DOWNLOAD)[1].ok
              /\ StageExits(DOWNLOAD)[1].ret # None
              /\ Exists(disk, StageExits(DOWNLOAD)[1].ret)

\* a run over a bounding box with no tile coverage has ended
C1_Witness_ZeroTilesHalted ==
    /\ entry = WORKFLOW
    /\ ReturnedNormally
    /\ Len(GetDemCalls) = 1 /\ GetDemCalls[1].ok /\ Len(GetDemCalls[1].ret) = 0
    /\ AcquisitionReturnedNone
    /\ ~Entered(HYDROLOGY)

\* C2: run_full_workflow_os never raises: when a stage raises, no stage is
\* invoked after it, the error is logged, and the run still ends by logging the
\* final message (once, as its last log line) and returning normally; a run
\* that has not returned can always take its next step.
C2_WorkflowNeverRaises ==
    entry = WORKFLOW =>
        /\ outcome.kind # "raise"
        /\ pc # "returned" => ENABLED Next
        /\ pc = "returned" =>
              /\ ReturnedNormally
              /\ log[Len(log)] = FinalMessage
              /\ Cardinality({i \in 1..Len(log) : log[i] = FinalMessage}) = 1
        /\ pc # "returned" => ~Logged("info", FinalMessage.msg)
        /\ \A i \in 1..Len(calls) :
              (calls[i].fn = "exit" /\ ~calls[i].ok) =>
                  /\ \A j \in (i + 1)..Len(calls) : calls[j].fn # "enter"
                  /\ pc \in {"except", "finally", "returned"}
                  /\ pc # "except" => Logged("error", "An unexpected Python error occurred")

C2_Witness_TopologyRaised ==
    /\ entry = WORKFLOW
    /\ ReturnedNormally
    /\ StageExits(TOPOLOGY) # <<>>
    /\ ~StageExits(TOPOLOGY)[1].ok
    /\ Logged("error", "An unexpected Python error occurred")
    /\ log[Len(log)] = FinalMessage

\* find_pour_points_with_networkx has returned n pour points to the orchestrator
TopologyReturned == StageExits(TOPOLOGY) # <<>> /\ StageExits(TOPOLOGY)[1].ok

NoPourPointReturned == TopologyReturned /\ StageExits(TOPOLOGY)[1].ret[2] = <<>>

SomePourPointReturned ==
    /\ TopologyReturned
    /\ StageExits(TOPOLOGY)[1].ret[2] # <<>>
    /\ Len(StageExits(TOPOLOGY)[1].ret[2][1]) >= 1

\* C8: delineate_sub_catchments is invoked if and only if the topology stage
\* returned at least one pour point; when it returned none, the orchestrator
\* logs the warning, invokes no delineation and no sub-catchments file exists.
C8_DelineationIffPourPoints ==
    entry = WORKFLOW =>
        /\ TopologyReturned => (NoPourPointReturned \/ SomePourPointReturned)
        /\ NoPourPointReturned =>
              /\ ~Entered(DELINEATE)
              /\ Logged("warning", "No pour points found, skipping sub-catchment delineation")
              /\ ~Exists(disk, SubCatchmentsPath(args[2]))
              /\ pc \in {"finally", "returned"}
        /\ SomePourPointReturned => (pc = "delineation" \/ Entered(DELINEATE))
        /\ Entered(DELINEATE) => SomePourPointReturned

\* the stream network is a closed loop: the graph has no junction and no terminus
C8_Witness_LoopNetworkSkipsDelineation ==
    /\ entry = WORKFLOW
    /\ ReturnedNormally
    /\ Exists(disk, StreamNetworkPath(args[2]))
    /\ NoPourPointReturned
    /\ ~Entered(DELINEATE)

\* the files the run has written into the pysheds output directory
PyshedsOutputs ==
    {p \in DOMAIN disk : Len(p) = 3 /\ SubSeq(p, 1, 2) = OutputDir(args[2])}

ExtractCalls == SelectCalls(calls, "grid.extract_river_network")

\* the hydrology stage has returned and the extraction found no stream
EmptyNetworkExtracted ==
    /\ entry = WORKFLOW
    /\ StageExits(HYDROLOGY) # <<>>
    /\ StageExits(HYDROLOGY)[1].ok
    /\ ExtractCalls[1].ret.features = <<>>

\* C9: when the extraction yields no stream, the run writes the flow
\* accumulation and flow direction rasters only, logs the no-streams warning,
\* the topology stage reads and writes nothing and returns no pour point,
\* delineation is not invoked, no error is logged and the run returns normally.
C9_EmptyNetworkIsNotAnError ==
    EmptyNetworkExtracted =>
        /\ PyshedsOutputs = {OutputDir(args[2]) \o <<"flow_accumulation.tif">>,
                             OutputDir(args[2]) \o <<"flow_direction_d8.tif">>}
        /\ Logged("warning", "No streams were extracted")
        /\ SelectCalls(calls, "gpd.read_file") = <<>>
        /\ SelectCalls(calls, "to_file") = <<>>
        /\ ~Entered(DELINEATE)
        /\ \A i \in 1..Len(log) : log[i].level # "error"
        /\ pc \in {"topology", "finally", "returned"}
        /\ pc # "topology" =>
              /\ StageExits(TOPOLOGY) # <<>>
              /\ StageExits(TOPOLOGY)[1].ok
              /\ StageExits(TOPOLOGY)[1].ret = <<None, <<>>>>
              /\ Logged("warning", "No stream network available")
        /\ pc = "returned" => ReturnedNormally

\* the threshold is above the accumulation of every cell
C9_Witness_ThresholdAboveAccumulation ==
    /\ EmptyNetworkExtracted
    /\ ExtractCalls[1].args[1].max < args[4]
    /\ ReturnedNormally
    /\ Cardinality(PyshedsOutputs) = 2

-----------------------------------------------------------------------------
(* Properties of download_dem_for_aoi *)

DemReturned == entry = "download_dem_for_aoi" /\ pc = "returned"

DataDir == args[2]

OpenCallsMade == SelectCalls(calls, "rasterio.open")
MergeCalls == SelectCalls(calls, "rasterio.merge.merge")

\* the tiles the fetch returned (<<>> when it raised)
FetchedTiles == IF GetDemCalls # <<>> /\ GetDemCalls[1].ok THEN GetDemCalls[1].ret ELSE <<>>

FetchReturned(n) ==
    /\ GetDemCalls # <<>>
    /\ GetDemCalls[1].ok
    /\ Len(GetDemCalls[1].ret) = n

\* a step of the acquisition stage raised: the fetch, the open of a tile, the
\* merge, or the write of the merged raster
AcquisitionStepRaised ==
    \E i \in 1..Len(calls) :
        /\ ~calls[i].ok
        /\ calls[i].fn \in {"s3dep.get_dem", "rasterio.open", "rasterio.merge.merge", "dest.write"}

NoStepRaised == \A i \in 1..Len(calls) : calls[i].ok

ReturnedNone == outcome = [kind |-> "return", value |-> None]

\* C3: when the fetch returns zero tiles, or the fetch, the open of a tile, the
\* merge or the write of the merged raster raises, download_dem_for_aoi returns
\* None and raises nothing; both cases end with the same error log line and the
\* same result.
C3_AcquisitionFailureAbsorbed ==
    (DemReturned /\ (FetchReturned(0) \/ AcquisitionStepRaised)) =>
        /\ ReturnedNone
        /\ log[Len(log)] = Log("error", "DEM download failed")

C3_Witness_MergeRaised ==
    /\ DemReturned
    /\ \E i \in 1..Len(calls) : calls[i].fn = "rasterio.merge.merge" /\ ~calls[i].ok
    /\ ReturnedNone

\* C4: when the fetch returns exactly one tile, the function returns that
\* tile's path, opens no tile, never calls the merge, creates no merged file,
\* and has called the fetch once with (bbox, output_dir, resolution), the
\* resolution being 10 when the caller gave none.
C4_SingleTileUsedDirectly ==
    (DemReturned /\ FetchReturned(1)) =>
        /\ outcome = [kind |-> "return", value |-> FetchedTiles[1].path]
        /\ OpenCallsMade = <<>>
        /\ MergeCalls = <<>>
        /\ ~Exists(disk, DataDir \o <<"dem_merged.tif">>)
        /\ Len(GetDemCalls) = 1
        /\ GetDemCalls[1].args =
              <<args[1], args[2], IF Len(args) >= 3 THEN args[3] ELSE 10>>

C4_Witness_SingleTileDefaultResolution ==
    /\ DemReturned
    /\ FetchReturned(1)
    /\ Len(args) = 2
    /\ outcome.kind = "return"
    /\ outcome.value = DataDir \o <<"dem_tile_1.tif">>

\* the rasters on disk that the fetch did not put there
WrittenRasters == DOMAIN disk \ {FetchedTiles[i].path : i \in 1..Len(FetchedTiles)}

\* C5: when the fetch returns N > 1 tiles and no step raises, every tile is
\* opened for reading in order, the merge is called exactly once over all of
\* them, exactly one raster is written, at <output_dir>/dem_merged.tif, with
\* the height and width of the merged mosaic, and that path is returned.
C5_MergeWritesOneMosaic ==
    (DemReturned /\ NoStepRaised /\ Len(FetchedTiles) > 1) =>
        LET merged == DataDir \o <<"dem_merged.tif">>
            reads == [i \in 1..Len(FetchedTiles) |-> <<FetchedTiles[i].path, "r">>]
        IN  /\ Len(MergeCalls) = 1
            /\ MergeCalls[1].args = [i \in 1..Len(FetchedTiles) |-> FetchedTiles[i].path]
            /\ [i \in 1..Len(OpenCallsMade) |-> OpenCallsMade[i].args]
                  = Append(reads, <<merged, "w">>)
            /\ WrittenRasters = {merged}
            /\ disk[merged].meta.height = MergeCalls[1].ret.shape[2]
            /\ disk[merged].meta.width = MergeCalls[1].ret.shape[3]
            /\ disk[merged].shape = MergeCalls[1].ret.shape
            /\ outcome = [kind |-> "return", value |-> merged]
            /\ \A i \in 1..Len(FetchedTiles) : outcome.value # FetchedTiles[i].path

C5_Witness_TwoTilesMerged ==
    /\ DemReturned
    /\ NoStepRaised
    /\ Len(FetchedTiles) = 2
    /\ Len(MergeCalls) = 1
    /\ MergeCalls[1].ret.shape = <<1, 10, 20>>
    /\ outcome.kind = "return"
    /\ outcome.value = DataDir \o <<"dem_merged.tif">>

\* a merged raster has been written from N > 1 tiles
MergedWritten ==
    /\ DemReturned
    /\ Len(FetchedTiles) > 1
    /\ Len(MergeCalls) = 1
    /\ MergeCalls[1].ok
    /\ Exists(disk, DataDir \o <<"dem_merged.tif">>)

\* C6 as stated: the merged raster takes width, height and transform from the
\* merge, and driver, CRS and dtype from the first tile.
C6_Original_DriverFromFirstTile ==
    MergedWritten =>
        LET meta == disk[DataDir \o <<"dem_merged.tif">>].meta
            first == FetchedTiles[1].meta
            mosaic == MergeCalls[1].ret
        IN  /\ meta.height = mosaic.shape[2]
            /\ meta.width = mosaic.shape[3]
            /\ meta.transform = mosaic.out_trans
            /\ meta.driver = first.driver
            /\ meta.crs = first.crs
            /\ meta.dtype = first.dtype

\* C6 amended: the merged raster takes width, height and transform from the
\* merge, CRS and dtype (and nodata and band count) from the first tile, and
\* its driver is always GTiff, whatever the first tile's driver.
C6_MergedMetadata ==
    MergedWritten =>
        LET meta == disk[DataDir \o <<"dem_merged.tif">>].meta
            first == FetchedTiles[1].meta
            mosaic == MergeCalls[1].ret
        IN  /\ meta.height = mosaic.shape[2]
            /\ meta.width = mosaic.shape[3]
            /\ meta.transform = mosaic.out_trans
            /\ meta.driver = "GTiff"
            /\ meta.crs = first.crs
            /\ meta.dtype = first.dtype
            /\ meta.nodata = first.nodata
            /\ meta.count = first.count

C6_Witness_FirstTileOtherDriver ==
    /\ MergedWritten
    /\ FetchedTiles[1].meta.driver = "VRT"
    /\ FetchedTiles[1].meta.crs # FetchedTiles[2].meta.crs
    /\ FetchedTiles[1].meta.dtype # FetchedTiles[2].meta.dtype
    /\ disk[DataDir \o <<"dem_merged.tif">>].meta.crs = FetchedTiles[1].meta.crs

-----------------------------------------------------------------------------
(* find_pour_points_with_networkx called directly *)

\* the caller passes the path of a stream network file, or None
InitTopo ==
    \E p \in ProjectDirs, crs \in {"EPSG:5070"} :
        \/ Idle("find_pour_points_with_networkx", <<None, p, crs>>, NoFiles)
        \/ \E net \in Networks(MaxLines) :
              Idle("find_pour_points_with_networkx", <<StreamNetworkPath(p), p, crs>>,
                   WriteFile(NoFiles, StreamNetworkPath(p), Vector(net, crs)))

CallFindPourPoints ==
    /\ entry = "find_pour_points_with_networkx"
    /\ pc = "call"
    /\ \E fail \in TopoFailures :
          Finish(find_pour_points_with_networkx(args[1], args[2], args[3], fail, disk))
    /\ UNCHANGED <<entry, args, input_dem_path, hydrology_data, pour_points, delin>>

NextTopo == CallFindPourPoints

SpecTopo == InitTopo /\ [][NextTopo]_vars

-----------------------------------------------------------------------------
(* Properties of find_pour_points_with_networkx *)

\* the function has returned normally from a call with a stream network file
TopoReturnedFromNetwork ==
    /\ entry = "find_pour_points_with_networkx"
    /\ pc = "returned"
    /\ outcome.kind = "return"
    /\ args[1] # None

\* the polylines of the stream network given to the function
GivenNetwork == disk[args[1]].features

\* the vertices that precede v in some polyline: its in-neighbours in the graph
InNeighbours(v) ==
    {u \in Coords : \E l \in 1..Len(GivenNetwork) :
        \E i \in 1..(Len(GivenNetwork[l]) - 1) :
            GivenNetwork[l][i] = u /\ GivenNetwork[l][i + 1] = v}

\* the point features written by the function (none when it wrote no file)
WrittenPoints ==
    IF Exists(disk, PourPointsPath(args[2]))
    THEN disk[PourPointsPath(args[2])].features ELSE <<>>

EmittedAs(v, type) ==
    {i \in 1..Len(WrittenPoints) :
        WrittenPoints[i].geometry = v /\ WrittenPoints[i].point_type = type}

\* C7: once the function has returned, every vertex with in-degree >= 2 is in
\* the output exactly once, as JUNCTION; every vertex with in-degree 0 exactly
\* once, as TERMINUS; a vertex with in-degree 1 not at all; and no vertex is
\* emitted under both types.
C7_ClassificationByInDegree ==
    TopoReturnedFromNetwork =>
        \A v \in Coords :
            LET d == Cardinality(InNeighbours(v))
                j == Cardinality(EmittedAs(v, "JUNCTION"))
                t == Cardinality(EmittedAs(v, "TERMINUS"))
                on == \E l \in 1..Len(GivenNetwork) : v \in Range(GivenNetwork[l])
            IN  /\ (on /\ d >= 2) => (j = 1 /\ t = 0)
                /\ (on /\ d = 0) => (j = 0 /\ t = 1)
                /\ (on /\ d = 1) => (j = 0 /\ t = 0)
                /\ ~on => (j = 0 /\ t = 0)

\* two branches converge at (100, 200) and continue to (100, 150)
C7_Witness_Confluence ==
    /\ TopoReturnedFromNetwork
    /\ InNeighbours(<<100, 200>>) = {<<50, 250>>, <<150, 250>>}
    /\ InNeighbours(<<100, 150>>) = {<<100, 200>>}
    /\ Cardinality(EmittedAs(<<100, 200>>, "JUNCTION")) = 1
    /\ Cardinality(EmittedAs(<<50, 250>>, "TERMINUS")) = 1
    /\ Cardinality(EmittedAs(<<150, 250>>, "TERMINUS")) = 1
    /\ Len(WrittenPoints) = 3

-----------------------------------------------------------------------------
(* Properties of delineate_sub_catchments *)

\* the catchments computed so far: one grid.catchment call per pour point
CatchmentCalls == SelectCalls(calls, "grid.catchment")

\* the polygons of value 1 among the (geom, value) pairs of one point
ValueOneParts(shapes) ==
    LET kept == SelectSeq(shapes, LAMBDA s : s[2] = 1)
    IN  [k \in 1..Len(kept) |-> [polygon |-> kept[k][1]]]

\* the value-1 parts of the first n points, concatenated in pour-point order
RECURSIVE PartsUpTo(_)
PartsUpTo(n) ==
    IF n = 0 THEN <<>>
    ELSE PartsUpTo(n - 1) \o ValueOneParts(CatchmentCalls[n].ret)

\* the numbers of the pour points a no-polygon warning was logged for, in order
SkippedWarnings ==
    LET w == SelectSeq(log, LAMBDA r :
                 r.msg = "No valid catchment polygon found for pour point")
    IN  [k \in 1..Len(w) |-> w[k].number]

RECURSIVE PointsWithoutPolygon(_)
PointsWithoutPolygon(n) ==
    IF n = 0 THEN <<>>
    ELSE PointsWithoutPolygon(n - 1)
         \o (IF ValueOneParts(CatchmentCalls[n].ret) = <<>> THEN <<n>> ELSE <<>>)

DelinReturned == entry = DELINEATE /\ pc = "returned" /\ outcome.kind = "return"

\* C10: while delineate_sub_catchments runs and no collaborator raises, the
\* accumulated shapes are the concatenation, in pour-point order, of the
\* value-1 polygons of every point processed so far (all parts, no background
\* polygon, duplicates kept), and a warning has been logged for exactly the
\* points without such a polygon; the function returns only after every
\* pour point has been processed, and the layer it writes is that
\* concatenation.
C10_AccumulatesAllValueOneParts ==
    /\ (entry = DELINEATE /\ pc = "delin_loop") =>
          /\ delin.i = Len(CatchmentCalls)
          /\ delin.all_catchments_shapes = PartsUpTo(Len(CatchmentCalls))
          /\ SkippedWarnings = PointsWithoutPolygon(Len(CatchmentCalls))
    /\ DelinReturned =>
          /\ Len(CatchmentCalls) = Len(args[2][1])
          /\ SkippedWarnings = PointsWithoutPolygon(Len(CatchmentCalls))
          /\ IF Exists(disk, SubCatchmentsPath(args[3]))
             THEN disk[SubCatchmentsPath(args[3])].features = PartsUpTo(Len(CatchmentCalls))
             ELSE PartsUpTo(Len(CatchmentCalls)) = <<>>

\* the first point has no value-1 polygon, the second has two identical parts
C10_Witness_SkippedThenDuplicateParts ==
    /\ DelinReturned
    /\ Len(CatchmentCalls) = 2
    /\ CatchmentCalls[1].ret = <<<<"background", 0>>>>
    /\ CatchmentCalls[2].ret = <<<<"polygon_a", 1>>, <<"polygon_a", 1>>>>
    /\ SkippedWarnings = <<1>>
    /\ disk[SubCatchmentsPath(args[3])].features
          = <<[polygon |-> "polygon_a"], [polygon |-> "polygon_a"]>>

\* the writes of the sub-catchments layer: positions in the trace
SubCatchmentWrites ==
    {i \in 1..Len(calls) : calls[i].fn = "to_file" /\ calls[i].ok}

\* C11: delineate_sub_catchments returns None exactly when no pour point
\* yielded a value-1 polygon, and then it has written no sub-catchments file;
\* otherwise it returns the path of the sub-catchments file, written exactly
\* once, after the catchment of every pour point was computed.  No file
\* exists while the loop is still running.
C11_NoFileIffNothingDelineated ==
    entry = DELINEATE =>
        /\ pc # "returned" => (SubCatchmentWrites = {} /\ DOMAIN disk = {})
        /\ DelinReturned =>
              /\ (outcome.value = None) <=> (PartsUpTo(Len(CatchmentCalls)) = <<>>)
              /\ outcome.value = None =>
                    /\ ~Exists(disk, SubCatchmentsPath(args[3]))
                    /\ SelectCalls(calls, "to_file") = <<>>
                    /\ Logged("warning", "No sub-catchments could be delineated and saved")
              /\ outcome.value # None =>
                    /\ outcome.value = args[3] \o <<"pysheds_outputs", "sub_catchments.gpkg">>
                    /\ DOMAIN disk = {outcome.value}
                    /\ Cardinality(SubCatchmentWrites) = 1
                    /\ Len(SelectCalls(calls, "to_file")) = 1
                    /\ \A w \in SubCatchmentWrites : \A i \in 1..Len(calls) :
                          calls[i].fn = "grid.catchment" => i < w
                    /\ Len(CatchmentCalls) = Len(args[2][1])

\* every pour point was processed and none yielded a catchment polygon
C11_Witness_AllPointsEmpty ==
    /\ DelinReturned
    /\ Len(CatchmentCalls) = 2
    /\ PartsUpTo(2) = <<>>
    /\ outcome.value = None
    /\ DOMAIN disk = {}

-----------------------------------------------------------------------------
(* Properties of perform_core_hydrology, as called by the workflow *)

HydrologyReturned ==
    /\ entry = WORKFLOW
    /\ StageExits(HYDROLOGY) # <<>>
    /\ StageExits(HYDROLOGY)[1].ok

\* the features grid.extract_river_network returned
ExtractedFeatures == ExtractCalls[1].ret.features

\* C12: whenever perform_core_hydrology has returned normally, the flow
\* accumulation and flow direction rasters are on disk; the stream-network
\* file is on disk if and only if the extracted network has a feature, and
\* then holds those features; the returned stream_network_path is None exactly
\* when the network is empty, and is the path of the file otherwise; the
\* no-streams message is logged exactly when the network is empty, at warning
\* level and not at error level.
C12_HydrologyOutputsPersisted ==
    HydrologyReturned =>
        /\ hydrology_data.set
        /\ Exists(disk, args[2] \o <<"pysheds_outputs", "flow_accumulation.tif">>)
        /\ Exists(disk, args[2] \o <<"pysheds_outputs", "flow_direction_d8.tif">>)
        /\ Exists(disk, args[2] \o <<"pysheds_outputs", "stream_network.gpkg">>)
              <=> (ExtractedFeatures # <<>>)
        /\ (hydrology_data.stream_network_path = None) <=> (ExtractedFeatures = <<>>)
        /\ Logged("warning", "No streams were extracted") <=> (ExtractedFeatures = <<>>)
        /\ ~Logged("error", "No streams were extracted")
        /\ ExtractedFeatures = <<>> =>
              \A i \in 1..Len(log) : log[i].level # "error"
        /\ ExtractedFeatures # <<>> =>
              /\ hydrology_data.stream_network_path
                    = args[2] \o <<"pysheds_outputs", "stream_network.gpkg">>
              /\ disk[hydrology_data.stream_network_path].features = ExtractedFeatures

\* the stage returned with both rasters and a stream network of two reaches
C12_Witness_NetworkWritten ==
    /\ HydrologyReturned
    /\ Len(ExtractedFeatures) = 2
    /\ Cardinality(PyshedsOutputs) >= 3
    /\ hydrology_data.stream_network_path # None
    /\ ~Logged("warning", "No streams were extracted")

\* the vector layers the run has written
VectorOutputs ==
    {p \in PyshedsOutputs :
        p[3] \in {"stream_network.gpkg", "pour_points.gpkg", "sub_catchments.gpkg"}}

\* the crs values handed to the topology and delineation stages
CrsPassed ==
    {calls[i].ret : i \in {j \in 1..Len(calls) :
        calls[j].fn = "enter" /\ calls[j].args[1] \in {TOPOLOGY, DELINEATE}}}

\* C13: in a workflow run, once perform_core_hydrology has read the elevation
\* raster it was given, the crs it returns, the crs of every vector layer on
\* disk (stream network, pour points, sub-catchments) and the crs passed to
\* find_pour_points_with_networkx and to delineate_sub_catchments are all the
\* crs of that elevation raster; no vector layer and no later stage exists
\* before perform_core_hydrology has captured it.
C13_OneCrsFromElevationRaster ==
    entry = WORKFLOW =>
        /\ hydrology_data.set <=> HydrologyReturned
        /\ hydrology_data.set =>
              hydrology_data.crs = disk[input_dem_path].meta.crs
        /\ \A p \in VectorOutputs :
              /\ hydrology_data.set
              /\ disk[p].crs = disk[input_dem_path].meta.crs
        /\ \A c \in CrsPassed :
              /\ hydrology_data.set
              /\ c = disk[input_dem_path].meta.crs

\* a run over a projected elevation raster wrote all three vector layers
C13_Witness_ProjectedRunWroteAllLayers ==
    /\ entry = WORKFLOW
    /\ ReturnedNormally
    /\ Cardinality(VectorOutputs) = 3
    /\ Cardinality(CrsPassed) = 1
    /\ disk[input_dem_path].meta.crs = "EPSG:5070"

-----------------------------------------------------------------------------
(* Properties of the outputs and the log of one workflow run *)

MergedElevationRaster == args[2] \o <<"input_dem", "dem_merged.tif">>

PyshedsOutput(name) == args[2] \o <<"pysheds_outputs", name>>

\* a record of warning or error level is in the log
WarningOrErrorLogged ==
    \E i \in 1..Len(log) : log[i].level \in {"warning", "error"}

\* an error was logged: by the acquisition stage or by the orchestrator
ErrorLogged ==
    \/ Logged("error", "DEM download failed")
    \/ Logged("error", "An unexpected Python error occurred")

RunEnded == entry = WORKFLOW /\ pc = "returned"

\* C14, as stated: when a run has ended, each of the six output files
\* (merged elevation raster, flow accumulation, flow direction, stream
\* network, pour points, sub-catchments) that is absent is accounted for by a
\* warning or an error in the log of the run.
C14_Original_EveryAbsentFileExplained ==
    RunEnded =>
        \A f \in {MergedElevationRaster,
                  PyshedsOutput("flow_accumulation.tif"),
                  PyshedsOutput("flow_direction_d8.tif"),
                  PyshedsOutput("stream_network.gpkg"),
                  PyshedsOutput("pour_points.gpkg"),
                  PyshedsOutput("sub_catchments.gpkg")} :
            ~Exists(disk, f) => WarningOrErrorLogged

\* C14: when a run has ended, an absent flow raster is accounted for by an
\* error in the log; an absent stream network by an error or the no-streams
\* warning; absent pour points by an error or a warning of the topology
\* stage; absent sub-catchments by an error or a warning of the orchestrator
\* or of the delineation stage; and an absent merged elevation raster by an
\* error whenever the fetch returned more than one tile.  After a fetch of
\* exactly one tile no merged raster is written and the tile itself is the
\* elevation raster of the run.
C14_NoSilentFailure ==
    RunEnded =>
        /\ \A name \in {"flow_accumulation.tif", "flow_direction_d8.tif"} :
              ~Exists(disk, PyshedsOutput(name)) => ErrorLogged
        /\ ~Exists(disk, PyshedsOutput("stream_network.gpkg")) =>
              \/ ErrorLogged
              \/ Logged("warning", "No streams were extracted")
        /\ ~Exists(disk, PyshedsOutput("pour_points.gpkg")) =>
              \/ ErrorLogged
              \/ Logged("warning", "No stream network available")
              \/ Logged("warning", "No pour points were identified")
        /\ ~Exists(disk, PyshedsOutput("sub_catchments.gpkg")) =>
              \/ ErrorLogged
              \/ Logged("warning", "No pour points found, skipping sub-catchment delineation")
              \/ Logged("warning", "No sub-catchments could be delineated and saved")
        /\ (Len(FetchedTiles) > 1 /\ ~Exists(disk, MergedElevationRaster)) => ErrorLogged
        /\ (FetchReturned(1) /\ ~ErrorLogged) =>
              /\ ~Exists(disk, MergedElevationRaster)
              /\ input_dem_path = FetchedTiles[1].path
              /\ Exists(disk, input_dem_path)

\* two tiles were fetched, the merge raised, and the run ended with no file
\* but the tiles
C14_Witness_MergeFailedAllAbsent ==
    /\ RunEnded
    /\ Len(FetchedTiles) = 2
    /\ ~Exists(disk, MergedElevationRaster)
    /\ PyshedsOutputs = {}
    /\ Logged("error", "DEM download failed")

-----------------------------------------------------------------------------
(* Properties of the graph built by find_pour_points_with_networkx *)

\* the graph at the end of the loop over the rows (built once per call)
GraphsBuilt == SelectCalls(calls, "nx.DiGraph")

BuiltGraph == GraphsBuilt[1].ret

\* the vertices of the given network
Vertices ==
    UNION {Range(GivenNetwork[l]) : l \in DOMAIN GivenNetwork}

\* the segments of the given network: <<l, i>> is the segment of polyline l
\* from its vertex i to its vertex i + 1
Segments ==
    UNION {{<<l, i>> : i \in 1..(Len(GivenNetwork[l]) - 1)} : l \in DOMAIN GivenNetwork}

SegmentsEndingAt(v) ==
    {s \in Segments : GivenNetwork[s[1]][s[2] + 1] = v}

\* the edges of the graph that end at v
EdgesInto(v) == {e \in BuiltGraph.edges : e[2] = v}

GraphBuiltLogged(n, e) ==
    \E i \in 1..Len(log) :
        /\ log[i].msg = "Graph built"
        /\ log[i].number_of_nodes = n
        /\ log[i].number_of_edges = e

\* C16, as stated: for every stream network the graph has as nodes the
\* distinct vertices, holds one edge per segment of every polyline, and the
\* in-degree of a node is the number of segments that end at it.
C16_Original_OneEdgePerSegment ==
    (TopoReturnedFromNetwork /\ GraphsBuilt # <<>>) =>
        /\ Range(BuiltGraph.nodes) = Vertices
        /\ Cardinality(BuiltGraph.edges) = Cardinality(Segments)
        /\ GraphBuiltLogged(Cardinality(Vertices), Cardinality(Segments))
        /\ \A v \in Vertices :
              Cardinality(EdgesInto(v)) = Cardinality(SegmentsEndingAt(v))

\* C16: for every stream network the graph has as nodes exactly the distinct
\* vertices, each once, and as edges exactly the distinct ordered pairs
\* (earlier vertex, later vertex) of consecutive vertices of some polyline: a
\* pair met in several polylines, or several times in one, is one edge.  The
\* in-degree of a node is the number of distinct vertices that come just
\* before it in some polyline, which is at most the number of segments ending
\* at it; the logged node and edge counts are those of this graph.
C16_GraphOfDistinctSegments ==
    (TopoReturnedFromNetwork /\ GraphsBuilt # <<>>) =>
        /\ Len(GraphsBuilt) = 1
        /\ Range(BuiltGraph.nodes) = Vertices
        /\ Len(BuiltGraph.nodes) = Cardinality(Vertices)
        /\ BuiltGraph.edges =
              {<<GivenNetwork[s[1]][s[2]], GivenNetwork[s[1]][s[2] + 1]>> : s \in Segments}
        /\ GraphBuiltLogged(Cardinality(Vertices), Cardinality(BuiltGraph.edges))
        /\ \A v \in Vertices :
              /\ Cardinality(EdgesInto(v)) = Cardinality(InNeighbours(v))
              /\ Cardinality(EdgesInto(v)) <= Cardinality(SegmentsEndingAt(v))

\* two polylines share the whole segment into (100, 200): two segments end
\* there, the graph has one edge into it, and it is not a junction
C16_Witness_SharedSegment ==
    /\ TopoReturnedFromNetwork
    /\ GraphsBuilt # <<>>
    /\ Len(GivenNetwork) = 2
    /\ GivenNetwork[1] = <<<<50, 250>>, <<100, 200>>>>
    /\ GivenNetwork[2] = <<<<50, 250>>, <<100, 200>>, <<100, 150>>>>
    /\ Cardinality(SegmentsEndingAt(<<100, 200>>)) = 2
    /\ Cardinality(EdgesInto(<<100, 200>>)) = 1
    /\ Cardinality(BuiltGraph.edges) = 2
    /\ EmittedAs(<<100, 200>>, "JUNCTION") = {}

-----------------------------------------------------------------------------
(* find_pour_points_with_networkx called directly and through the workflow *)

InitTopoOrWorkflow == InitTopo \/ InitWorkflow

NextTopoOrWorkflow == NextTopo \/ Next

SpecTopoOrWorkflow == InitTopoOrWorkflow /\ [][NextTopoOrWorkflow]_vars

\* the values find_pour_points_with_networkx has returned in this run
PourPointResults ==
    IF entry = WORKFLOW
    THEN {StageExits(TOPOLOGY)[i].ret :
             i \in {j \in 1..Len(StageExits(TOPOLOGY)) : StageExits(TOPOLOGY)[j].ok}}
    ELSE IF entry = "find_pour_points_with_networkx"
            /\ pc = "returned" /\ outcome.kind = "return"
    THEN {outcome.value}
    ELSE {}

\* no TERMINUS feature comes before a JUNCTION feature
JunctionsFirst(points) ==
    \A i, j \in 1..Len(points) :
        (points[i].point_type = "TERMINUS" /\ points[j].point_type = "JUNCTION") => j < i

\* C17: find_pour_points_with_networkx returns None as path exactly when it
\* returns empty coordinates, and then no pour-points file exists; otherwise
\* the path is that of the pour-points file and the coordinates are a pair of
\* an x list and a y list of one common length >= 1, the coordinates of the
\* point features written, in order, all JUNCTION features before all
\* TERMINUS features.  The orchestrator invokes delineate_sub_catchments only
\* with such a pair.
C17_PathAndCoordinatesAgree ==
    /\ \A ret \in PourPointResults :
          /\ (ret[1] = None) <=> (ret[2] = <<>>)
          /\ ret[1] = None =>
                /\ ~Exists(disk, args[2] \o <<"pysheds_outputs", "pour_points.gpkg">>)
                /\ \A i \in 1..Len(calls) :
                      calls[i].fn = "to_file" =>
                          calls[i].args # <<args[2] \o <<"pysheds_outputs", "pour_points.gpkg">>>>
          /\ ret[1] # None =>
                /\ ret[1] = args[2] \o <<"pysheds_outputs", "pour_points.gpkg">>
                /\ Exists(disk, ret[1])
                /\ Len(ret[2]) = 2
                /\ Len(ret[2][1]) >= 1
                /\ Len(ret[2][1]) = Len(ret[2][2])
                /\ Len(ret[2][1]) = Len(disk[ret[1]].features)
                /\ \A i \in 1..Len(ret[2][1]) :
                      disk[ret[1]].features[i].geometry = <<ret[2][1][i], ret[2][2][i]>>
                /\ JunctionsFirst(disk[ret[1]].features)
    /\ (entry = WORKFLOW /\ Entered(DELINEATE)) =>
          /\ pour_points \in PourPointResults
          /\ Len(pour_points[2]) = 2
          /\ Len(pour_points[2][1]) >= 1
          /\ Len(pour_points[2][1]) = Len(pour_points[2][2])

\* the orchestrator has invoked the delineation with the junction and the two
\* channel heads of a confluence, the junction first
C17_Witness_JunctionThenHeadsDelineated ==
    /\ entry = WORKFLOW
    /\ Entered(DELINEATE)
    /\ pour_points[2] = << <<100, 50, 150>>, <<200, 250, 250>> >>
    /\ disk[pour_points[1]].features[1].point_type = "JUNCTION"
    /\ disk[pour_points[1]].features[3].point_type = "TERMINUS"

-----------------------------------------------------------------------------
(* Properties of the order of the stages in one workflow run *)

\* the stages in pipeline order
Pipeline == <<DOWNLOAD, HYDROLOGY, TOPOLOGY, DELINEATE>>

\* positions in the trace where a stage was invoked, and where it ended
EnterAt(stage) ==
    {i \in 1..Len(calls) : calls[i].fn = "enter" /\ calls[i].args = <<stage>>}

ExitAt(stage) ==
    {i \in 1..Len(calls) : calls[i].fn = "exit" /\ calls[i].args = <<stage>>}

\* C15: in a workflow run every stage is invoked at most once and ends at
\* most once, after its invocation; a stage other than the acquisition is
\* invoked only after the stage before it in the order acquisition,
\* hydrology, topology, delineation has returned normally; and once the
\* hydrology stage has returned normally the topology stage is the next
\* thing to run or has been invoked, also when no stream was extracted.
C15_StagesInForwardOrder ==
    entry = WORKFLOW =>
        /\ \A k \in 1..4 :
              /\ Cardinality(EnterAt(Pipeline[k])) <= 1
              /\ Cardinality(ExitAt(Pipeline[k])) <= 1
              /\ \A x \in ExitAt(Pipeline[k]) : \E e \in EnterAt(Pipeline[k]) : e < x
        /\ \A k \in 2..4 :
              \A e \in EnterAt(Pipeline[k]) :
                  \E x \in ExitAt(Pipeline[k - 1]) : x < e /\ calls[x].ok
        /\ HydrologyReturned => (pc = "topology" \/ Entered(TOPOLOGY))
        /\ (HydrologyReturned /\ pc = "returned") => Entered(TOPOLOGY)

\* all four stages ran, each once, in pipeline order
C15_Witness_AllFourStagesRan ==
    /\ RunEnded
    /\ \A k \in 1..4 : Cardinality(EnterAt(Pipeline[k])) = 1
    /\ \A k \in 1..4 : Cardinality(ExitAt(Pipeline[k])) = 1
    /\ \A k \in 2..4 :
          \A e \in EnterAt(Pipeline[k]) : \A x \in ExitAt(Pipeline[k - 1]) : x < e

====
